---- MODULE Spec2Model ----
(***************************************************************************)
(* Model of infra/deploy_azure_resources.py: the linear deployment run of  *)
(* main() and the helpers it calls.  Text (operator input, command stdout) *)
(* is a sequence of one-character strings, so that strip(), lower(),       *)
(* substring search and quote stripping are computed as the code computes  *)
(* them.  External commands are the environment: every invocation draws an *)
(* exit status and a stdout text from the outcomes that command can have.  *)
(***************************************************************************)
EXTENDS Integers, Sequences, FiniteSets, TLC

VARIABLES
    pc,                 \* position of the run inside main() and its callees
    exited,             \* TRUE once the process has terminated
    exitCode,           \* process exit status (meaningful once exited)
    uncaught,           \* name of the exception that escaped main(), or "none"
    cliLog,             \* shell commands issued so far, in order
    last,               \* outcome of the last subprocess.run: [cmd, rc, out]
    files,              \* files currently on disk that the run created
    printed,            \* messages printed so far (tags)
    toolPresent,        \* environment: the az CLI is installed
    loggedIn,           \* environment: an authenticated az session exists
    bicepExists,        \* environment: main.bicep is beside the script
    subscription,       \* main: parsed subscription record
    response,           \* confirm_subscription: raw operator answer
    password_input,     \* main: raw text typed at the password prompt
    admin_password,     \* main: the password in use
    confirm,            \* main: raw operator answer to "Proceed with deployment?"
    validate_result,    \* deploy_bicep_template: result of the build command
    status_result,      \* deploy_bicep_template: result of the state query
    status,             \* deploy_bicep_template: parsed provisioning state
    deployment_outputs, \* main: value returned by deploy_bicep_template
    client_ip,          \* main: result of the IP echo command
    db_result,          \* initialize_database: result of the SQL command
    admin_user,         \* main: the SQL admin username in use
    saved_json,         \* connection string written to the .json file
    saved_txt,          \* connection string written to the .txt file
    gen_pc,             \* generate_secure_password: position in the loop
    gen_length,         \* generate_secure_password: length argument
    gen_password,       \* generate_secure_password: current candidate
    clock,              \* wall clock, in ticks
    run_pc,             \* save_deployment_info of each run: position
    run_prefix,         \* save_deployment_info of each run: resource_name
    run_base,           \* save_deployment_info of each run: base_filename
    run_second,         \* the clock second in which each run took its timestamp
    disk                \* deployment-info files on disk: name -> last writer

mainVars == <<pc, exited, exitCode, uncaught, cliLog, last, files, printed,
              toolPresent, loggedIn, bicepExists, subscription, response,
              password_input, admin_password, confirm, validate_result,
              status_result, status, deployment_outputs, client_ip, db_result,
              admin_user, saved_json, saved_txt>>
genVars == <<gen_pc, gen_length, gen_password>>
runVars == <<clock, run_pc, run_prefix, run_base, run_second, disk>>

vars == <<mainVars, genVars, runVars>>

-----------------------------------------------------------------------------
(* Text helpers *)

Chars(s) == [i \in 1..Len(s) |-> SubSeq(s, i, i)]

UpperLetters == "ABCDEFGHIJKLMNOPQRSTUVWXYZ"
LowerLetters == "abcdefghijklmnopqrstuvwxyz"
Digits == "0123456789"
Punctuation == "!@#$%^&*()-_=+[]{}|;:,.<>?"
Whitespace == {" ", "\n", "\t"}

InString(c, s) == \E i \in 1..Len(s) : SubSeq(s, i, i) = c

\* str.lower() on one character
LowerChar(c) ==
    IF InString(c, UpperLetters)
    THEN LET i == CHOOSE j \in 1..Len(UpperLetters) : SubSeq(UpperLetters, j, j) = c
         IN  SubSeq(LowerLetters, i, i)
    ELSE c

\* str.lower()
Lower(t) == [i \in 1..Len(t) |-> LowerChar(t[i])]

\* str.strip(chars): drop the leading and trailing characters that are in cs
RECURSIVE LStrip(_, _)
LStrip(t, cs) == IF t # <<>> /\ Head(t) \in cs THEN LStrip(Tail(t), cs) ELSE t

RECURSIVE RStrip(_, _)
RStrip(t, cs) ==
    IF t # <<>> /\ t[Len(t)] \in cs THEN RStrip(SubSeq(t, 1, Len(t) - 1), cs) ELSE t

StripChars(t, cs) == RStrip(LStrip(t, cs), cs)

\* str.strip()
Strip(t) == StripChars(t, Whitespace)

\* sub in t
Contains(t, sub) ==
    \E i \in 1..(Len(t) - Len(sub) + 1) : SubSeq(t, i, i + Len(sub) - 1) = sub

\* Optional[str]: Python None or a text
None == [some |-> FALSE, text |-> <<>>]
Some(t) == [some |-> TRUE, text |-> t]

\* Python truthiness of an Optional[str]
Truthy(v) == v.some /\ v.text # <<>>

-----------------------------------------------------------------------------
(* JSON values and json.loads on the documents the commands can print *)

JStr(t)   == [type |-> "str",  str |-> t,    items |-> <<>>]
JDict(f)  == [type |-> "dict", str |-> <<>>, items |-> f]
JList(q)  == [type |-> "list", str |-> <<>>, items |-> q]
JNull     == [type |-> "null", str |-> <<>>, items |-> <<>>]

\* Python truthiness of a parsed JSON value
JTruthy(v) ==
    CASE v.type = "str"  -> v.str # <<>>
      [] v.type = "dict" -> DOMAIN v.items # {}
      [] v.type = "list" -> v.items # <<>>
      [] OTHER           -> FALSE

SubscriptionText ==
    Chars("{\"name\":\"Sub\",\"id\":\"s1\",\"tenantId\":\"t1\"}")
OutputsText ==
    Chars("{\"sqlServerName\":{\"value\":\"srv\"},\"sqlDatabaseName\":{\"value\":\"db\"}}")
FlatOutputsText == Chars("{\"sqlServerName\":\"srv\"}")
ServerOnlyOutputsText == Chars("{\"sqlServerName\":{\"value\":\"sql1\"}}")
ErrorText == Chars("{\"code\":\"DeploymentFailed\"}")

\* The object, array and null documents of the model, with their parsed values
JsonDocs ==
    { <<SubscriptionText,
        JDict([name |-> JStr(Chars("Sub")), id |-> JStr(Chars("s1")),
               tenantId |-> JStr(Chars("t1"))])>>,
      <<OutputsText,
        JDict([sqlServerName   |-> JDict([value |-> JStr(Chars("srv"))]),
               sqlDatabaseName |-> JDict([value |-> JStr(Chars("db"))])])>>,
      <<FlatOutputsText, JDict([sqlServerName |-> JStr(Chars("srv"))])>>,
      <<ServerOnlyOutputsText,
        JDict([sqlServerName |-> JDict([value |-> JStr(Chars("sql1"))])])>>,
      <<ErrorText, JDict([code |-> JStr(Chars("DeploymentFailed"))])>>,
      <<Chars("{}"), JDict(<<>>)>>,
      <<Chars("[]"), JList(<<>>)>>,
      <<Chars("null"), JNull>> }

\* A JSON string literal without escapes: "..." with no quote inside
IsJsonString(t) ==
    /\ Len(t) >= 2
    /\ t[1] = "\"" /\ t[Len(t)] = "\""
    /\ \A i \in 2..(Len(t) - 1) : t[i] \notin {"\"", "\\"}

\* json.loads(t): ok = FALSE stands for json.JSONDecodeError
JsonLoads(t) ==
    IF IsJsonString(t)
    THEN [ok |-> TRUE, value |-> JStr(SubSeq(t, 2, Len(t) - 1))]
    ELSE IF \E d \in JsonDocs : d[1] = t
    THEN [ok |-> TRUE, value |-> (CHOOSE d \in JsonDocs : d[1] = t)[2]]
    ELSE [ok |-> FALSE, value |-> JNull]

-----------------------------------------------------------------------------
(* run_command *)

\* run_command(command, check): subprocess.run(..., check=check) raises
\* CalledProcessError only when check is true and the status is non-zero; the
\* handler exits when check is true and returns None otherwise; without an
\* exception the stripped stdout is returned.
run_command(check, rc, out) ==
    LET raised == check /\ rc # 0
    IN  IF raised
        THEN IF check
             THEN [exits |-> TRUE,  value |-> None]
             ELSE [exits |-> FALSE, value |-> None]
        ELSE [exits |-> FALSE, value |-> Some(Strip(out))]

-----------------------------------------------------------------------------
(* The environment: what each external command can exit with and print *)

O(rc, s) == [rc |-> rc, out |-> Chars(s)]

CommandOutcomes(cmd) ==
    CASE cmd = "az --version" ->
            { O(0, "azure-cli 2.60.0\n") }
      [] cmd = "az account show" ->
            { [rc |-> 0, out |-> SubscriptionText \o <<"\n">>],
              O(0, ""), O(0, "WARNING: retry\n"), O(1, "") }
      [] cmd = "az group create" ->
            { O(0, "{\"name\":\"rg\"}\n"), O(0, ""), O(1, "") }
      [] cmd = "az bicep build" ->
            { O(0, ""), O(0, "Warning no-unused-params\n"),
              O(1, "ERROR BCP007\n"), O(0, "main.bicep: Error BCP018\n"), O(1, "") }
      [] cmd = "az deployment group create" ->
            { O(0, "{}\n"), O(1, "") }
      [] cmd = "az deployment group show provisioningState" ->
            { O(0, "\"Succeeded\"\n"), O(0, "\"Failed\"\n"), O(0, "Succeeded\n"),
              O(0, "{}\n"), O(0, ""), O(1, "") }
      [] cmd = "az deployment group show outputs" ->
            { [rc |-> 0, out |-> OutputsText \o <<"\n">>],
              [rc |-> 0, out |-> FlatOutputsText],
              [rc |-> 0, out |-> ServerOnlyOutputsText], O(0, "{}\n"), O(0, "null\n"),
              O(0, "{\"sqlServerName\"\n"), O(0, ""), O(1, "") }
      [] cmd = "az deployment group show error" ->
            { [rc |-> 0, out |-> ErrorText], O(0, "null\n"), O(0, "{\"code\"\n"),
              O(1, "") }
      [] cmd = "az deployment group list" ->
            { O(0, "[]\n"), O(1, "") }
      [] cmd = "curl -s https://api.ipify.org" ->
            { O(0, "203.0.113.7"), O(0, " \n"), O(1, "") }
      [] cmd = "az sql server firewall-rule create" ->
            { O(0, "{}\n"), O(1, "") }
      [] cmd = "az sql db execute" ->
            { O(0, "Done\n"), O(0, ""), O(1, "") }

IsAz(cmd) == SubSeq(cmd, 1, 3) = "az "

\* The outcomes a command can have in the current environment: without the
\* CLI the shell reports "command not found" (status 127, empty stdout);
\* without a session "az account show" fails.
Outcomes(cmd) ==
    IF IsAz(cmd) /\ ~toolPresent THEN { O(127, "") }
    ELSE IF cmd = "az account show" /\ ~loggedIn THEN { O(1, "") }
    ELSE CommandOutcomes(cmd)

\* The bookkeeping of one subprocess.run: the command is issued and its
\* outcome is the last one seen.
Issue(cmd, o) ==
    /\ cliLog' = Append(cliLog, cmd)
    /\ last' = [cmd |-> cmd, rc |-> o.rc, out |-> o.out]

\* sys.exit() called without its argument: status 0
SysExit_NoStatus(code) == exited' = TRUE /\ exitCode' = 0

\* sys.exit(code)
SysExit(code) == exited' = TRUE /\ exitCode' = code

\* An exception nobody catches: traceback, interpreter exits with status 1
Crash(exc) == exited' = TRUE /\ exitCode' = 1 /\ uncaught' = exc

-----------------------------------------------------------------------------
(* Operator input *)

MaxPasswordLen == 9
MinPasswordLen == 8
GeneratedPasswordLen == 16

SampleText == Chars("Abcd123!xyzwvu")

\* What the operator can type at a yes/no prompt
Answers ==
    { Chars("yes"), Chars("y"), Chars(" YES \n"), Chars("Y"), Chars("Yes"),
      Chars("no"), Chars(""), Chars("n"), Chars("yess"), Chars("ye s") }

\* What the operator can type at the password prompt: every length up to
\* MaxPasswordLen, blank input, and input padded with whitespace
PasswordInputs ==
    { SubSeq(SampleText, 1, n) : n \in 0..MaxPasswordLen }
        \cup { Chars("  "), <<" ">> \o SubSeq(SampleText, 1, MinPasswordLen - 1) \o <<" ">> }

\* The digit requirement left out of the complexity test
MeetsComplexity_NoDigit(p) ==
    /\ \E i \in 1..Len(p) : InString(p[i], LowerLetters)
    /\ \E i \in 1..Len(p) : InString(p[i], UpperLetters)
    /\ \E i \in 1..Len(p) : InString(p[i], Punctuation)

\* The complexity test of generate_secure_password
MeetsComplexity(p) ==
    /\ \E i \in 1..Len(p) : InString(p[i], LowerLetters)
    /\ \E i \in 1..Len(p) : InString(p[i], UpperLetters)
    /\ \E i \in 1..Len(p) : InString(p[i], Digits)
    /\ \E i \in 1..Len(p) : InString(p[i], Punctuation)

\* Candidates the random source can produce (a sample of them)
CandidatePasswords ==
    { Chars("aB3!aB3!aB3!aB3!"), Chars("Zq9?zQ0#Zq9?zQ0#"), Chars("abcdefghijklmnop"),
      Chars("aB3!") }

\* generate_secure_password(length): the values the loop can return
generate_secure_password(length) ==
    { c \in CandidatePasswords : Len(c) = length /\ MeetsComplexity(c) }

\* What the operator can type at the admin-username prompt
UserInputs == { Chars(""), Chars(" dba ") }

\* get_user_input(prompt, default) with a default: the trimmed input, or the
\* default when it is empty
get_user_input(typed, default) ==
    IF Strip(typed) # <<>> THEN Strip(typed) ELSE default

\* dict.get(key): the value, or None
DictGet(d, k) == IF k \in DOMAIN d.items THEN d.items[k] ELSE JNull

\* How an f-string renders a value that is a str or None
PyFormat(v) == IF v.type = "str" THEN v.str ELSE Chars("None")

\* The literal parts of the connection-string template
ConnServer == Chars("Server=tcp:")
ConnHost == Chars(".database.windows.net")
ConnPort == Chars(",1433")
ConnCatalog == Chars(";Initial Catalog=")
ConnUser == Chars(";Persist Security Info=False;User ID=")
ConnPassword == Chars(";Password=")
ConnFlags ==
    Chars(";MultipleActiveResultSets=False;Encrypt=True;TrustServerCertificate=False;Connection Timeout=30;")

\* The port left out of the server address
get_connection_string_NoPort(server_name, database_name, user, password) ==
    ConnServer \o PyFormat(server_name) \o ConnHost
        \o ConnCatalog \o PyFormat(database_name)
        \o ConnUser \o user \o ConnPassword \o password \o ConnFlags

\* get_connection_string(server_name, database_name, admin_user, admin_password)
get_connection_string(server_name, database_name, user, password) ==
    ConnServer \o PyFormat(server_name) \o ConnHost \o ConnPort
        \o ConnCatalog \o PyFormat(database_name)
        \o ConnUser \o user \o ConnPassword \o password \o ConnFlags

\* save_deployment_info: the connection_string it prepares
InfoConnectionString ==
    get_connection_string(DictGet(deployment_outputs, "sqlServerName"),
                          DictGet(deployment_outputs, "sqlDatabaseName"),
                          admin_user, admin_password)

\* A prefix test where the code compares the whole normalised answer
IsYes_Prefix(answer) ==
    LET a == Lower(Strip(answer)) IN a # <<>> /\ Head(a) = "y"

\* The test applied to a yes/no answer
IsYes(answer) == Lower(Strip(answer)) \in { Chars("yes"), Chars("y") }

\* Length test off by one
PasswordTooShort_OffByOne(p) == Len(p) < MinPasswordLen - 1

\* The length validation of a manually entered password
PasswordTooShort(p) == Len(p) < MinPasswordLen

-----------------------------------------------------------------------------
(* Control-flow helpers *)

Running == ~exited

Continue(next) == pc' = next /\ UNCHANGED <<exited, exitCode, uncaught>>
Exit(code) == SysExit(code) /\ UNCHANGED <<pc, uncaught>>
CrashHere(exc) == Crash(exc) /\ UNCHANGED pc
Say(tags) == printed' = printed \cup tags

envVars == <<toolPresent, loggedIn, bicepExists>>
inputVars == <<subscription, response, password_input, admin_password, confirm,
               admin_user>>
savedVars == <<saved_json, saved_txt>>
deployVars == <<validate_result, status_result, status, deployment_outputs>>
tailVars == <<client_ip, db_result>>

-----------------------------------------------------------------------------
(* Initial state *)

Runs == {1, 2}

\* generate_secure_password is not being executed on its own
GenIdle == gen_pc = "idle" /\ gen_length = 0 /\ gen_password = <<>>

\* No run is inside save_deployment_info
RunsIdle ==
    /\ clock = 0
    /\ run_pc = [r \in Runs |-> "idle"]
    /\ run_prefix = [r \in Runs |-> <<>>]
    /\ run_base = [r \in Runs |-> <<>>]
    /\ run_second = [r \in Runs |-> 0]
    /\ disk = <<>>

Init ==
    /\ pc = "check_cli"
    /\ exited = FALSE
    /\ exitCode = 0
    /\ uncaught = "none"
    /\ cliLog = <<>>
    /\ last = [cmd |-> "", rc |-> 0, out |-> <<>>]
    /\ files = {}
    /\ printed = {}
    /\ toolPresent \in BOOLEAN
    /\ loggedIn \in BOOLEAN
    /\ bicepExists \in BOOLEAN
    /\ subscription = JNull
    /\ response = None
    /\ password_input = None
    /\ admin_password = <<>>
    /\ confirm = None
    /\ validate_result = None
    /\ status_result = None
    /\ status = <<>>
    /\ deployment_outputs = JNull
    /\ client_ip = None
    /\ db_result = None
    /\ admin_user = <<>>
    /\ saved_json = None
    /\ saved_txt = None
    /\ GenIdle
    /\ RunsIdle

-----------------------------------------------------------------------------
(* main: preflight, confirmation, configuration, resource group *)

\* main: "az --version" probe
CheckCli ==
    /\ Running /\ pc = "check_cli"
    /\ \E o \in Outcomes("az --version") :
         LET r == run_command(FALSE, o.rc, o.out)
         IN  /\ Issue("az --version", o)
             /\ IF r.exits THEN Exit(1) /\ Say({})
                ELSE IF r.value = None
                THEN Exit(1) /\ Say({"cli_not_installed"})
                ELSE Continue("check_login") /\ Say({})
    /\ UNCHANGED <<genVars, runVars, savedVars, files, envVars, inputVars, deployVars, tailVars>>

\* check_az_login and its test in main
CheckLogin ==
    /\ Running /\ pc = "check_login"
    /\ \E o \in Outcomes("az account show") :
         LET r == run_command(FALSE, o.rc, o.out)
             logged == r.value # None
         IN  /\ Issue("az account show", o)
             /\ IF r.exits THEN Exit(1) /\ Say({})
                ELSE IF ~logged
                THEN Exit(1) /\ Say({"not_logged_in"})
                ELSE Continue("get_subscription") /\ Say({})
    /\ UNCHANGED <<genVars, runVars, savedVars, files, envVars, inputVars, deployVars, tailVars>>

\* get_current_subscription and its test in main
GetSubscription ==
    /\ Running /\ pc = "get_subscription"
    /\ \E o \in Outcomes("az account show") :
         LET r == run_command(TRUE, o.rc, o.out)
             parsed == JsonLoads(r.value.text)
             sub == IF Truthy(r.value) THEN parsed.value ELSE JDict(<<>>)
         IN  /\ Issue("az account show", o)
             /\ IF r.exits
                THEN Exit(1) /\ Say({}) /\ UNCHANGED subscription
                ELSE IF Truthy(r.value) /\ ~parsed.ok
                THEN CrashHere("JSONDecodeError") /\ Say({}) /\ UNCHANGED subscription
                ELSE /\ subscription' = sub
                     /\ IF ~JTruthy(sub)
                        THEN Exit(1) /\ Say({"no_subscription"})
                        ELSE Continue("confirm_subscription") /\ Say({})
    /\ UNCHANGED <<genVars, runVars, savedVars, files, envVars, response, password_input, admin_password, confirm,
                   admin_user, deployVars, tailVars>>

\* confirm_subscription and its test in main
ConfirmSubscription ==
    /\ Running /\ pc = "confirm_subscription"
    /\ \E a \in Answers :
         /\ response' = Some(a)
         /\ IF IsYes(a)
            THEN Continue("configure") /\ Say({})
            ELSE Exit(0) /\ Say({"cancelled"})
    /\ UNCHANGED <<genVars, runVars, savedVars, cliLog, last, files, envVars, subscription, password_input,
                   admin_password, confirm, admin_user, deployVars, tailVars>>

\* main: the password prompt, generation or length validation
Configure ==
    /\ Running /\ pc = "configure"
    /\ \E u \in UserInputs : admin_user' = get_user_input(u, Chars("sqladmin"))
    /\ \E p \in PasswordInputs :
         LET typed == Strip(p)
         IN  /\ password_input' = Some(p)
             /\ IF typed = <<>>
                THEN /\ admin_password' \in generate_secure_password(GeneratedPasswordLen)
                     /\ Continue("final_confirm") /\ Say({"generated_password"})
                ELSE /\ admin_password' = typed
                     /\ IF PasswordTooShort(typed)
                        THEN Exit(1) /\ Say({"password_too_short"})
                        ELSE Continue("final_confirm") /\ Say({})
    /\ UNCHANGED <<genVars, runVars, savedVars, cliLog, last, files, envVars, subscription, response, confirm,
                   deployVars, tailVars>>

\* main: "Proceed with deployment?"
FinalConfirm ==
    /\ Running /\ pc = "final_confirm"
    /\ \E a \in Answers :
         /\ confirm' = Some(a)
         /\ IF IsYes(a)
            THEN Continue("create_rg") /\ Say({})
            ELSE Exit(0) /\ Say({"cancelled"})
    /\ UNCHANGED <<genVars, runVars, savedVars, cliLog, last, files, envVars, subscription, response, password_input,
                   admin_password, admin_user, deployVars, tailVars>>

\* create_resource_group and its test in main
CreateResourceGroup ==
    /\ Running /\ pc = "create_rg"
    /\ \E o \in Outcomes("az group create") :
         LET r == run_command(TRUE, o.rc, o.out)
         IN  /\ Issue("az group create", o)
             /\ IF r.exits THEN Exit(1) /\ Say({})
                ELSE IF Truthy(r.value)
                THEN Continue("d_exists") /\ Say({"rg_created"})
                ELSE Exit(1) /\ Say({"rg_failed"})
    /\ UNCHANGED <<genVars, runVars, savedVars, files, envVars, inputVars, deployVars, tailVars>>

-----------------------------------------------------------------------------
(* deploy_bicep_template *)

ParamFile == "params.json"
SqlFile == "script.sql"
PwdFile == "password.txt"

\* The test that aborts after "az bicep build"
ValidationFailed(result) ==
    result = None \/ Contains(Lower(result.text), Chars("error"))

\* Quote stripping without the JSON parse and its "Unknown" fallback
ParseStatus_NoParse(text) == StripChars(text, {"\""})

\* The provisioning state computed from a non-empty status_result
ParseStatus(text) ==
    LET parsed == JsonLoads(text)
        first == IF parsed.value.type = "str"
                 THEN StripChars(parsed.value.str, {"\""})
                 ELSE text
    IN  IF parsed.ok THEN StripChars(first, {"\""}) ELSE Chars("Unknown")

\* outputs.items() / value.get('value') raise AttributeError unless outputs
\* is a dict whose values are dicts
OutputsWellFormed(outputs) ==
    /\ outputs.type = "dict"
    /\ \A k \in DOMAIN outputs.items : outputs.items[k].type = "dict"

\* output_values[key] = value.get('value')
ExtractOutputs(outputs) ==
    JDict([k \in DOMAIN outputs.items |->
             IF "value" \in DOMAIN outputs.items[k].items
             THEN outputs.items[k].items.value
             ELSE JNull])

\* Template existence check and "az bicep build" validation
DeployValidate ==
    /\ Running /\ pc = "d_exists"
    /\ IF ~bicepExists
       THEN /\ deployment_outputs' = JNull
            /\ Continue("d_return") /\ Say({"bicep_not_found"})
            /\ UNCHANGED <<cliLog, last, validate_result>>
       ELSE \E o \in Outcomes("az bicep build") :
              LET r == run_command(FALSE, o.rc, o.out)
              IN  /\ Issue("az bicep build", o)
                  /\ validate_result' = r.value
                  /\ IF ValidationFailed(r.value)
                     THEN /\ deployment_outputs' = JNull
                          /\ Continue("d_return") /\ Say({"validation_failed"})
                     ELSE /\ UNCHANGED deployment_outputs
                          /\ Continue("d_params") /\ Say({"template_valid"})
    /\ UNCHANGED <<genVars, runVars, savedVars, files, envVars, inputVars, status_result, status, tailVars>>

\* The temporary parameters file is written (outside the try block); a file
\* that cannot be created raises OSError, which nothing catches here
DeployWriteParams ==
    /\ Running /\ pc = "d_params"
    /\ \E written \in BOOLEAN :
         IF written
         THEN files' = files \cup {ParamFile} /\ Continue("d_create")
         ELSE UNCHANGED files /\ CrashHere("OSError")
    /\ UNCHANGED <<genVars, runVars, savedVars, cliLog, last, printed, envVars, inputVars, deployVars, tailVars>>

\* "az deployment group create"; its result is not examined
DeployCreate ==
    /\ Running /\ pc = "d_create"
    /\ \E o \in Outcomes("az deployment group create") :
         Issue("az deployment group create", o)
    /\ Continue("d_status")
    /\ UNCHANGED <<genVars, runVars, savedVars, files, printed, envVars, inputVars, deployVars, tailVars>>

\* The provisioning-state query and the branch on it
DeployStatus ==
    /\ Running /\ pc = "d_status"
    /\ \E o \in Outcomes("az deployment group show provisioningState") :
         LET r == run_command(FALSE, o.rc, o.out)
         IN  /\ Issue("az deployment group show provisioningState", o)
             /\ status_result' = r.value
             /\ IF Truthy(r.value)
                THEN /\ status' = ParseStatus(r.value.text)
                     /\ IF status' = Chars("Succeeded")
                        THEN Continue("d_outputs")
                        ELSE Continue("d_error")
                ELSE UNCHANGED status /\ Continue("d_list")
    /\ UNCHANGED <<genVars, runVars, savedVars, files, printed, envVars, inputVars, validate_result,
                   deployment_outputs, tailVars>>

\* status == "Succeeded": the outputs query and the value returned
DeployOutputs ==
    /\ Running /\ pc = "d_outputs"
    /\ \E o \in Outcomes("az deployment group show outputs") :
         LET r == run_command(FALSE, o.rc, o.out)
             parsed == JsonLoads(r.value.text)
         IN  /\ Issue("az deployment group show outputs", o)
             /\ IF ~Truthy(r.value)
                THEN deployment_outputs' = JNull /\ Say({"no_outputs"})
                ELSE IF ~parsed.ok
                THEN deployment_outputs' = JNull /\ Say({"outputs_unparsable"})
                ELSE IF ~OutputsWellFormed(parsed.value)
                THEN deployment_outputs' = JNull /\ Say({"deploy_exception"})
                ELSE /\ deployment_outputs' = ExtractOutputs(parsed.value)
                     /\ Say({"deployed"})
    /\ Continue("d_finally")
    /\ UNCHANGED <<genVars, runVars, savedVars, files, envVars, inputVars, validate_result, status_result, status,
                   tailVars>>

\* Any other state: the error query, then None
DeployError ==
    /\ Running /\ pc = "d_error"
    /\ \E o \in Outcomes("az deployment group show error") :
         Issue("az deployment group show error", o)
    /\ deployment_outputs' = JNull
    /\ Continue("d_finally") /\ Say({"deployment_failed"})
    /\ UNCHANGED <<genVars, runVars, savedVars, files, envVars, inputVars, validate_result, status_result, status,
                   tailVars>>

\* No status: the deployments listing, then None
DeployList ==
    /\ Running /\ pc = "d_list"
    /\ \E o \in Outcomes("az deployment group list") :
         Issue("az deployment group list", o)
    /\ deployment_outputs' = JNull
    /\ Continue("d_finally") /\ Say({"status_unreadable"})
    /\ UNCHANGED <<genVars, runVars, savedVars, files, envVars, inputVars, validate_result, status_result, status,
                   tailVars>>

\* finally: os.unlink(param_file_path).  Unlinking a file this run created
\* and closed succeeds; the swallowed OSError covers a file already gone.
DeployFinally ==
    /\ Running /\ pc = "d_finally"
    /\ files' = files \ {ParamFile}
    /\ Continue("d_return")
    /\ UNCHANGED <<genVars, runVars, savedVars, cliLog, last, printed, envVars, inputVars, deployVars, tailVars>>

\* The firewall step left out: straight on to database initialization
DeployReturn_SkipFirewall ==
    /\ Running /\ pc = "d_return"
    /\ IF ~JTruthy(deployment_outputs)
       THEN Exit(1) /\ Say({"deploy_failed"})
       ELSE Continue("db_script") /\ Say({})
    /\ UNCHANGED <<genVars, runVars, savedVars, cliLog, last, files, envVars, inputVars, deployVars, tailVars>>

\* main: the test of the value deploy_bicep_template returned
DeployReturn ==
    /\ Running /\ pc = "d_return"
    /\ IF ~JTruthy(deployment_outputs)
       THEN Exit(1) /\ Say({"deploy_failed"})
       ELSE Continue("fw_ip") /\ Say({})
    /\ UNCHANGED <<genVars, runVars, savedVars, cliLog, last, files, envVars, inputVars, deployVars, tailVars>>

-----------------------------------------------------------------------------
(* main: firewall configuration *)

\* Client IP detection
FirewallDetectIp ==
    /\ Running /\ pc = "fw_ip"
    /\ \E o \in Outcomes("curl -s https://api.ipify.org") :
         LET r == run_command(FALSE, o.rc, o.out)
         IN  /\ Issue("curl -s https://api.ipify.org", o)
             /\ client_ip' = r.value
             /\ IF Truthy(r.value) /\ Strip(r.value.text) # <<>>
                THEN Continue("fw_rule") /\ Say({})
                ELSE Continue("db_script") /\ Say({"ip_not_detected"})
    /\ UNCHANGED <<genVars, runVars, savedVars, files, envVars, inputVars, deployVars, db_result>>

\* Firewall rule creation; its result is not examined
FirewallAddRule ==
    /\ Running /\ pc = "fw_rule"
    /\ \E o \in Outcomes("az sql server firewall-rule create") :
         Issue("az sql server firewall-rule create", o)
    /\ Continue("db_script") /\ Say({"firewall_added"})
    /\ UNCHANGED <<genVars, runVars, savedVars, files, envVars, inputVars, deployVars, tailVars>>

-----------------------------------------------------------------------------
(* initialize_database *)

\* The SQL script is written to a temporary file (outside the try block)
DbWriteScript ==
    /\ Running /\ pc = "db_script"
    /\ \E written \in BOOLEAN :
         IF written
         THEN files' = files \cup {SqlFile} /\ Continue("db_password")
         ELSE UNCHANGED files /\ CrashHere("OSError")
    /\ UNCHANGED <<genVars, runVars, savedVars, cliLog, last, printed, envVars, inputVars, deployVars, tailVars>>

\* The password is written to a second temporary file (inside the outer try)
DbWritePassword ==
    /\ Running /\ pc = "db_password"
    /\ \E written \in BOOLEAN :
         IF written
         THEN /\ files' = files \cup {PwdFile}
              /\ Continue("db_execute") /\ Say({})
         ELSE /\ UNCHANGED files
              /\ Continue("db_cleanup_script") /\ Say({"db_exception", "sql_saved_to"})
    /\ UNCHANGED <<genVars, runVars, savedVars, cliLog, last, envVars, inputVars, deployVars, tailVars>>

\* The SQL command run with check=True, as the fatal steps are
DbExecute_Checked ==
    /\ Running /\ pc = "db_execute"
    /\ \E o \in Outcomes("az sql db execute") :
         LET r == run_command(TRUE, o.rc, o.out)
         IN  /\ Issue("az sql db execute", o)
             /\ db_result' = r.value
             /\ IF r.exits
                THEN Exit(1) /\ Say({})
                ELSE Continue("db_cleanup_password") /\ Say({"db_initialized"})
    /\ UNCHANGED <<genVars, runVars, savedVars, files, envVars, inputVars, deployVars, client_ip>>

\* "az sql db execute" and the report on its result
DbExecute ==
    /\ Running /\ pc = "db_execute"
    /\ \E o \in Outcomes("az sql db execute") :
         LET r == run_command(FALSE, o.rc, o.out)
         IN  /\ Issue("az sql db execute", o)
             /\ db_result' = r.value
             /\ IF r.value # None
                THEN Say({"db_initialized"})
                ELSE Say({"db_manual", "sql_saved_to"})
    /\ Continue("db_cleanup_password")
    /\ UNCHANGED <<genVars, runVars, savedVars, files, envVars, inputVars, deployVars, client_ip>>

\* inner finally: os.unlink(pwd_file_path)
DbCleanupPassword ==
    /\ Running /\ pc = "db_cleanup_password"
    /\ files' = files \ {PwdFile}
    /\ Continue("db_cleanup_script")
    /\ UNCHANGED <<genVars, runVars, savedVars, cliLog, last, printed, envVars, inputVars, deployVars, tailVars>>

\* The script kept whenever its path was reported for manual execution
DbCleanupScript_KeepReported ==
    /\ Running /\ pc = "db_cleanup_script"
    /\ files' = IF "sql_saved_to" \in printed THEN files ELSE files \ {SqlFile}
    /\ Continue("save_json")
    /\ UNCHANGED <<genVars, runVars, savedVars, cliLog, last, printed, envVars, inputVars, deployVars, tailVars>>

\* outer finally: os.unlink(sql_file)
DbCleanupScript ==
    /\ Running /\ pc = "db_cleanup_script"
    /\ files' = files \ {SqlFile}
    /\ Continue("save_json")
    /\ UNCHANGED <<genVars, runVars, savedVars, cliLog, last, printed, envVars, inputVars, deployVars, tailVars>>

-----------------------------------------------------------------------------
(* save_deployment_info and the end of main *)

JsonInfoFile == "deployment_info.json"
TxtInfoFile == "deployment_info.txt"

\* open(json_file, 'w') and json.dump
SaveJson ==
    /\ Running /\ pc = "save_json"
    /\ \E written \in BOOLEAN :
         IF written
         THEN /\ files' = files \cup {JsonInfoFile}
              /\ saved_json' = Some(InfoConnectionString)
              /\ Continue("save_txt") /\ Say({"json_saved"})
         ELSE UNCHANGED <<files, saved_json>> /\ CrashHere("OSError") /\ Say({})
    /\ UNCHANGED <<genVars, runVars, saved_txt, cliLog, last, envVars, inputVars, deployVars, tailVars>>

\* open(txt_file, 'w') and the report lines
SaveTxt ==
    /\ Running /\ pc = "save_txt"
    /\ \E written \in BOOLEAN :
         IF written
         THEN /\ files' = files \cup {TxtInfoFile}
              /\ saved_txt' = Some(InfoConnectionString)
              /\ Continue("summary") /\ Say({"txt_saved"})
         ELSE UNCHANGED <<files, saved_txt>> /\ CrashHere("OSError") /\ Say({})
    /\ UNCHANGED <<genVars, runVars, saved_json, cliLog, last, envVars, inputVars, deployVars, tailVars>>

\* main prints the summary and returns: the interpreter exits with status 0
Summary ==
    /\ Running /\ pc = "summary"
    /\ pc' = "done" /\ SysExit(0) /\ UNCHANGED uncaught
    /\ Say({"deployment_complete"})
    /\ UNCHANGED <<genVars, runVars, savedVars, cliLog, last, files, envVars, inputVars, deployVars, tailVars>>

-----------------------------------------------------------------------------

Next ==
    \/ CheckCli
    \/ CheckLogin
    \/ GetSubscription
    \/ ConfirmSubscription
    \/ Configure
    \/ FinalConfirm
    \/ CreateResourceGroup
    \/ DeployValidate
    \/ DeployWriteParams
    \/ DeployCreate
    \/ DeployStatus
    \/ DeployOutputs
    \/ DeployError
    \/ DeployList
    \/ DeployFinally
    \/ DeployReturn
    \/ FirewallDetectIp
    \/ FirewallAddRule
    \/ DbWriteScript
    \/ DbWritePassword
    \/ DbExecute
    \/ DbCleanupPassword
    \/ DbCleanupScript
    \/ SaveJson
    \/ SaveTxt
    \/ Summary

Spec == Init /\ [][Next]_vars

-----------------------------------------------------------------------------
(* generate_secure_password(length), called on its own *)

\* main is not running
MainNotRun ==
    /\ pc = "not_run"
    /\ exited = FALSE
    /\ exitCode = 0
    /\ uncaught = "none"
    /\ cliLog = <<>>
    /\ last = [cmd |-> "", rc |-> 0, out |-> <<>>]
    /\ files = {}
    /\ printed = {}
    /\ toolPresent = FALSE
    /\ loggedIn = FALSE
    /\ bicepExists = FALSE
    /\ subscription = JNull
    /\ response = None
    /\ password_input = None
    /\ admin_password = <<>>
    /\ confirm = None
    /\ validate_result = None
    /\ status_result = None
    /\ status = <<>>
    /\ deployment_outputs = JNull
    /\ client_ip = None
    /\ db_result = None
    /\ admin_user = <<>>
    /\ saved_json = None
    /\ saved_txt = None

\* Largest length argument explored
MaxGenLen == 4

\* alphabet = string.ascii_letters + string.digits + the punctuation literal
Alphabet == LowerLetters \o UpperLetters \o Digits \o Punctuation

\* The characters secrets.choice is let to pick here: two of each class
DrawChars == {"a", "z", "A", "Z", "0", "9", "!", "?"}

\* ''.join(secrets.choice(alphabet) for i in range(length)): every string of
\* `length` picks
Candidates(length) == [1..length -> DrawChars]

GenInit ==
    /\ MainNotRun
    /\ RunsIdle
    /\ gen_pc = "loop"
    /\ gen_length \in 0..MaxGenLen
    /\ gen_password = <<>>

\* Line 94: one candidate is drawn
GenDraw ==
    /\ gen_pc = "loop"
    /\ gen_password' \in Candidates(gen_length)
    /\ gen_pc' = "test"
    /\ UNCHANGED <<mainVars, runVars, gen_length>>

\* Line 94 when the draw is a string with a character of every class
GenDrawCompliant == GenDraw /\ MeetsComplexity(gen_password')

\* Lines 96-100: the candidate passes the test and is returned
GenReturn ==
    /\ gen_pc = "test"
    /\ MeetsComplexity(gen_password)
    /\ gen_pc' = "returned"
    /\ UNCHANGED <<mainVars, runVars, gen_length, gen_password>>

\* Lines 96-99 fail: back to `while True`; the rejected candidate is dead, the
\* next iteration overwrites it
GenReject ==
    /\ gen_pc = "test"
    /\ ~MeetsComplexity(gen_password)
    /\ gen_pc' = "loop"
    /\ gen_password' = <<>>
    /\ UNCHANGED <<mainVars, runVars, gen_length>>

GenNext == GenDraw \/ GenReturn \/ GenReject

\* The lengths for which some draw passes the test
CompliantLengths ==
    { n \in 0..MaxGenLen : \E c \in Candidates(n) : MeetsComplexity(c) }

\* ENABLED <<GenDrawCompliant>>_vars
CompliantDrawPossible == gen_pc = "loop" /\ gen_length \in CompliantLengths

\* The interpreter keeps executing the loop (WF_vars(GenNext)).  secrets.choice
\* draws every string with positive probability at every iteration, so a draw
\* that is possible again and again eventually happens: strong fairness of
\* GenDrawCompliant, SF_vars(GenDrawCompliant), spelled out with its
\* enabling condition.
GenSpec ==
    /\ GenInit
    /\ [][GenNext]_vars
    /\ WF_vars(GenNext)
    /\ ([]<>CompliantDrawPossible => []<><<GenDrawCompliant>>_vars)

-----------------------------------------------------------------------------
(* save_deployment_info in two runs of the script that share a directory *)

\* Sub-second steps of the wall clock per second
TicksPerSecond == 2

\* The wall clock starts at 23:59:58 on the first day of the month
FirstSecond == 86398

\* Ticks of the wall clock explored
MaxClock == 5

\* The resource_name of a run
Prefixes == { Chars("zava"), Chars("dev") }

\* The second the wall clock shows at tick c
Second(c) == FirstSecond + (c \div TicksPerSecond)

\* Zero-padded two-digit decimal (%d, %H, %M, %S)
Pad2(n) == <<SubSeq(Digits, (n \div 10) + 1, (n \div 10) + 1),
             SubSeq(Digits, (n % 10) + 1, (n % 10) + 1)>>

\* The minute taken for the timestamp, the seconds dropped
Timestamp_NoSeconds(s) ==
    Chars("202601") \o Pad2(1 + (s \div 86400)) \o <<"_">>
        \o Pad2((s \div 3600) % 24) \o Pad2((s \div 60) % 60)

\* datetime.now().strftime("%Y%m%d_%H%M%S") at second s of January 2026
Timestamp(s) ==
    Chars("202601") \o Pad2(1 + (s \div 86400)) \o <<"_">>
        \o Pad2((s \div 3600) % 24) \o Pad2((s \div 60) % 60) \o Pad2(s % 60)

\* base_filename = f"deployment_info_{resource_name}_{timestamp}"
BaseFilename(resource_name, timestamp) ==
    Chars("deployment_info_") \o resource_name \o <<"_">> \o timestamp

\* json_file and txt_file of a run
JsonFile(r) == run_base[r] \o Chars(".json")
TxtFile(r) == run_base[r] \o Chars(".txt")

\* open(name, 'w') and the writes by run r: the file is created or truncated
\* and holds what r wrote
WriteFile(name, r) ==
    [n \in DOMAIN disk \cup {name} |-> IF n = name THEN r ELSE disk[n]]

PersistInit ==
    /\ MainNotRun
    /\ GenIdle
    /\ clock = 0
    /\ run_pc = [r \in Runs |-> "start"]
    /\ run_prefix \in [Runs -> Prefixes]
    /\ run_base = [r \in Runs |-> <<>>]
    /\ run_second = [r \in Runs |-> 0]
    /\ disk = <<>>

\* Time passes
Tick ==
    /\ clock < MaxClock
    /\ clock' = clock + 1
    /\ UNCHANGED <<mainVars, genVars, run_pc, run_prefix, run_base, run_second, disk>>

\* The wall clock is set back by a second (datetime.now() is local time,
\* not monotonic)
ClockSetBack ==
    /\ clock >= TicksPerSecond
    /\ clock' = clock - TicksPerSecond
    /\ UNCHANGED <<mainVars, genVars, run_pc, run_prefix, run_base, run_second, disk>>

\* Lines 107-108: run r takes its timestamp and builds base_filename
SaveStart(r) ==
    /\ run_pc[r] = "start"
    /\ run_second' = [run_second EXCEPT ![r] = Second(clock)]
    /\ run_base' = [run_base EXCEPT
                       ![r] = BaseFilename(run_prefix[r], Timestamp(Second(clock)))]
    /\ run_pc' = [run_pc EXCEPT ![r] = "json"]
    /\ UNCHANGED <<mainVars, genVars, clock, run_prefix, disk>>

\* Lines 144-146: run r writes its .json file
WriteJson(r) ==
    /\ run_pc[r] = "json"
    /\ disk' = WriteFile(JsonFile(r), r)
    /\ run_pc' = [run_pc EXCEPT ![r] = "txt"]
    /\ UNCHANGED <<mainVars, genVars, clock, run_prefix, run_base, run_second>>

\* Lines 150-151: run r writes its .txt file
WriteTxt(r) ==
    /\ run_pc[r] = "txt"
    /\ disk' = WriteFile(TxtFile(r), r)
    /\ run_pc' = [run_pc EXCEPT ![r] = "done"]
    /\ UNCHANGED <<mainVars, genVars, clock, run_prefix, run_base, run_second>>

\* open() raises OSError: run r ends, the disk is as it was
WriteFails(r) ==
    /\ run_pc[r] \in {"json", "txt"}
    /\ run_pc' = [run_pc EXCEPT ![r] = "failed"]
    /\ UNCHANGED <<mainVars, genVars, clock, run_prefix, run_base, run_second, disk>>

PersistNext ==
    \/ Tick
    \/ ClockSetBack
    \/ \E r \in Runs : SaveStart(r)
    \/ \E r \in Runs : WriteJson(r)
    \/ \E r \in Runs : WriteTxt(r)
    \/ \E r \in Runs : WriteFails(r)

PersistSpec == PersistInit /\ [][PersistNext]_vars

-----------------------------------------------------------------------------
(* Properties *)

Range(q) == { q[i] : i \in 1..Len(q) }
Issued(cmd) == cmd \in Range(cliLog)

PreflightCommands == <<"az --version", "az account show", "az account show">>

\* The raw answers that are "yes" or "y" after trimming, in any letter case
AffirmativeAnswers ==
    { Chars("yes"), Chars("y"), Chars(" YES \n"), Chars("Y"), Chars("Yes") }

DeclinedSubscription == response.some /\ response.text \notin AffirmativeAnswers
DeclinedDeployment == confirm.some /\ confirm.text \notin AffirmativeAnswers

\* Positions of main after deploy_bicep_template has returned outputs
PostDeployPcs ==
    { "fw_ip", "fw_rule", "db_script", "db_password", "db_execute",
      "db_cleanup_password", "db_cleanup_script", "save_json", "save_txt",
      "summary", "done" }

\* Positions after initialize_database has returned
PostDbPcs == { "save_json", "save_txt", "summary", "done" }

\* Commands run with check=True, and the variable holding the result of each
\* command run with check=False whose result is kept
CheckedCommands == { "az group create" }
KeptResult(cmd) ==
    CASE cmd = "az bicep build" -> validate_result
      [] cmd = "az deployment group show provisioningState" -> status_result
      [] cmd = "curl -s https://api.ipify.org" -> client_ip
      [] cmd = "az sql db execute" -> db_result
KeptCommands ==
    { "az bicep build", "az deployment group show provisioningState",
      "curl -s https://api.ipify.org", "az sql db execute" }

\* C1: when the executed command exits with a non-zero status, with
\* check=True the process terminates with exit status 1, and with check=False
\* run_command returns None (not a string).
C1_NonZeroExitContract ==
    last.rc # 0 =>
        /\ last.cmd \in CheckedCommands => (exited /\ exitCode = 1)
        /\ last.cmd \in KeptCommands => KeptResult(last.cmd) = None

\* C2: an answer other than yes/y (trimmed, any letter case) at the
\* subscription prompt or at the final prompt ends the process at once with
\* status 0; the resource-group creation command and every later command are
\* never issued (only the three preflight commands have run).
C2_DeclineExitsWithoutCreating ==
    /\ DeclinedSubscription =>
          /\ exited /\ exitCode = 0 /\ pc = "confirm_subscription"
          /\ cliLog = PreflightCommands
    /\ DeclinedDeployment =>
          /\ exited /\ exitCode = 0 /\ pc = "final_confirm"
          /\ cliLog = PreflightCommands

C2_Witness == DeclinedDeployment /\ exited /\ ~DeclinedSubscription

\* The state read back is the JSON string "Succeeded"
ReadBackSucceeded ==
    status_result.some /\ status_result.text = Chars("\"Succeeded\"")

\* C3: unless the provisioning state read back is "Succeeded" (unreadable and
\* unparsable states included) deploy_bicep_template returns no outputs and
\* main never reaches the firewall and database steps; those steps run only
\* with a non-empty output mapping of a Succeeded deployment.
C3_OutputsOnlyWhenSucceeded ==
    /\ ~ReadBackSucceeded =>
          /\ deployment_outputs = JNull
          /\ pc \notin PostDeployPcs
          /\ ~Issued("curl -s https://api.ipify.org")
          /\ ~Issued("az sql server firewall-rule create")
          /\ ~Issued("az sql db execute")
    /\ pc \in PostDeployPcs =>
          /\ ReadBackSucceeded
          /\ deployment_outputs.type = "dict"
          /\ DOMAIN deployment_outputs.items # {}

C3_Witness ==
    /\ pc = "d_return" /\ exited /\ exitCode = 1
    /\ status_result.some /\ status_result.text = Chars("Succeeded")
    /\ Issued("az deployment group create")

\* C4: if the output of the build command contains "error" in any letter
\* case, or is empty, deploy_bicep_template returns no outputs without
\* issuing the deployment-create command, and no resource-group deletion
\* command is ever issued.
C4_ValidationAborts ==
    /\ ( /\ Issued("az bicep build")
         /\ \/ ~Truthy(validate_result)
            \/ Contains(Lower(validate_result.text), Chars("error")) )
          => /\ ~Issued("az deployment group create")
             /\ deployment_outputs = JNull
    /\ ~Issued("az group delete")

\* A manually entered password that is non-empty and shorter than 8
ShortPasswordEntered ==
    /\ password_input.some
    /\ "generated_password" \notin printed
    /\ Len(admin_password) \in 1..7

\* C5 as stated: a manually entered password shorter than 8 is rejected with
\* status 1 before any CLI command has been invoked in the run.
C5_RejectedBeforeAnyCommand ==
    ShortPasswordEntered => (exited /\ exitCode = 1 /\ cliLog = <<>>)

\* C5 as amended: a manually entered password shorter than 8 is rejected with
\* status 1 at the password prompt, when exactly the three preflight commands
\* have been invoked and before the resource-group creation command or any
\* later command.
C5_RejectedBeforeGroupCreation ==
    ShortPasswordEntered =>
        /\ exited /\ exitCode = 1 /\ pc = "configure"
        /\ cliLog = PreflightCommands
        /\ ~Issued("az group create")

C5_Witness == ShortPasswordEntered /\ exited /\ Len(admin_password) = 7

PreflightPcs == { "check_cli", "check_login", "get_subscription" }
DeployPcs ==
    { "d_exists", "d_params", "d_create", "d_status", "d_outputs", "d_error",
      "d_list", "d_finally", "d_return" }

\* C6: the exit status is 0 exactly when the run completes all steps or the
\* operator cancels at a confirmation prompt, and 1 when the CLI tool is
\* missing, no session exists, subscription retrieval fails, resource-group
\* creation fails, template deployment fails or a manually supplied password
\* is shorter than 8; no other status occurs.
C6_ExitStatus ==
    /\ exitCode \in {0, 1}
    /\ exited =>
          (exitCode = 0 <=> (pc = "done" \/ DeclinedSubscription \/ DeclinedDeployment))
    /\ (~toolPresent \/ ~loggedIn) => (pc \in PreflightPcs /\ (exited => exitCode = 1))
    /\ (Len(cliLog) = 3 /\ last.cmd = "az account show"
          /\ (last.rc # 0 \/ Strip(last.out) # SubscriptionText))
          => (exited /\ exitCode = 1)
    /\ (last.cmd = "az group create" /\ last.rc # 0) => (exited /\ exitCode = 1)
    /\ (exited /\ pc \in DeployPcs \cup {"create_rg"}) => exitCode = 1
    /\ pc \in PostDeployPcs => deployment_outputs # JNull
    /\ ShortPasswordEntered => (exited /\ exitCode = 1)

C6_Witness == exited /\ exitCode = 1 /\ pc = "d_return" /\ Issued("az deployment group create")

\* The stage of the run that a position of main belongs to
StageIndex(p) ==
    CASE p \in PreflightPcs -> 1                                 \* Preflight
      [] p = "confirm_subscription" -> 2                         \* Confirmed
      [] p \in {"configure", "final_confirm"} -> 3               \* Configured
      [] p = "create_rg" -> 4                                    \* GroupCreated
      [] p \in DeployPcs -> 5                                    \* Deployed
      [] p \in {"fw_ip", "fw_rule"} -> 6                         \* FirewallConfigured
      [] p \in {"db_script", "db_password", "db_execute",
                "db_cleanup_password", "db_cleanup_script"} -> 7 \* DBInitialized
      [] p \in {"save_json", "save_txt"} -> 8                    \* Persisted
      [] p \in {"summary", "done"} -> 9                          \* Done

\* The first position of each stage, and the positions a stage can be left from
StageEntryPcs ==
    { "check_cli", "confirm_subscription", "configure", "create_rg", "d_exists",
      "fw_ip", "db_script", "save_json", "summary" }
StageFinalPcs ==
    { "get_subscription", "confirm_subscription", "final_confirm", "create_rg",
      "d_return", "fw_ip", "fw_rule", "db_cleanup_script", "save_txt" }

\* One step of the run stays in its stage or moves from the end of the stage
\* to the beginning of the next one; a terminated run moves no more
StageStep ==
    /\ StageIndex(pc') \in {StageIndex(pc), StageIndex(pc) + 1}
    /\ StageIndex(pc') # StageIndex(pc) => (pc \in StageFinalPcs /\ pc' \in StageEntryPcs)
    /\ exited => pc' = pc

EarlyExit == exited /\ pc # "done"

\* C7 as stated (its termination clause): the run ends early only at
\* Preflight, at Confirmed with status 0, at GroupCreated with status 1 and
\* at Deployed with status 1, and at no other stage.
C7_EarlyExitOnlyAtFourStages ==
    EarlyExit =>
        \/ StageIndex(pc) = 1
        \/ StageIndex(pc) = 2 /\ exitCode = 0
        \/ StageIndex(pc) = 4 /\ exitCode = 1
        \/ StageIndex(pc) = 5 /\ exitCode = 1

\* Where, and with which status, the run can end before Done
EarlyExitAllowed ==
    EarlyExit =>
        \/ StageIndex(pc) = 1 /\ exitCode = 1
        \/ StageIndex(pc) = 2 /\ exitCode = 0
        \/ pc = "configure" /\ exitCode = 1 /\ ShortPasswordEntered
        \/ pc = "final_confirm" /\ exitCode = 0 /\ DeclinedDeployment
        \/ StageIndex(pc) = 4 /\ exitCode = 1
        \/ StageIndex(pc) = 5 /\ exitCode = 1
        \/ pc \in {"db_script", "save_json", "save_txt"} /\ exitCode = 1
              /\ uncaught = "OSError"

\* C7 as amended: every run passes through the stages Preflight, Confirmed,
\* Configured, GroupCreated, Deployed, FirewallConfigured, DBInitialized,
\* Persisted, Done in that order without skipping or repeating one, and it
\* can end early at Preflight (1), Confirmed (0), Configured (short password:
\* 1, decline at the final prompt: 0), GroupCreated (1), Deployed (1), and by
\* an uncaught file error at DBInitialized or Persisted (1); never at
\* FirewallConfigured.
C7_StagesInOrder == [][StageStep]_vars /\ []EarlyExitAllowed

C7_Witness ==
    /\ exited /\ pc = "done"
    /\ Issued("az sql server firewall-rule create") /\ Issued("az sql db execute")

C10_ScriptKeptOnFailure ==
    (pc \in PostDbPcs /\ last.cmd = "az sql db execute" /\ last.rc # 0) =>
        /\ "db_manual" \in printed
        /\ "db_initialized" \notin printed
        /\ SqlFile \in files

\* C14: wherever CLI output is parsed as JSON (subscription record,
\* provisioning state, deployment outputs, error details) a parse failure is
\* caught at that call site and degrades to a placeholder or absent value
\* ("Unknown" for the provisioning state); no JSONDecodeError escapes the
\* function that parsed.
C14_ParseFailuresCaught ==
    /\ uncaught # "JSONDecodeError"
    /\ (Truthy(status_result) /\ ~JsonLoads(status_result.text).ok)
          => status = Chars("Unknown")
    /\ "outputs_unparsable" \in printed => deployment_outputs = JNull

\* The text of a deployment output as it is interpolated: its value, or
\* "None" when the output is missing
OutputText(key) ==
    IF key \in DOMAIN deployment_outputs.items
          /\ deployment_outputs.items[key].type = "str"
    THEN deployment_outputs.items[key].str
    ELSE Chars("None")

\* The literal parts of the connection string as the claim spells it
ClaimPart1 == Chars("Server=tcp:")
ClaimPart2 == Chars(".database.windows.net,1433;Initial Catalog=")
ClaimPart3 == Chars(";Persist Security Info=False;User ID=")
ClaimPart4 == Chars(";Password=")
ClaimPart5 ==
    Chars(";MultipleActiveResultSets=False;Encrypt=True;TrustServerCertificate=False;Connection Timeout=30;")

\* The connection string of the claim for the run's outputs and credentials
ExpectedConnectionString ==
    ClaimPart1 \o OutputText("sqlServerName") \o ClaimPart2
        \o OutputText("sqlDatabaseName") \o ClaimPart3 \o admin_user
        \o ClaimPart4 \o admin_password \o ClaimPart5

\* The worked example: server "srv", database "db", user "sqladmin",
\* password "P@ss1234"
ExampleResult ==
    get_connection_string(JStr(Chars("srv")), JStr(Chars("db")),
                          Chars("sqladmin"), Chars("P@ss1234"))
ExampleExpected ==
    Chars("Server=tcp:srv.database.windows.net,1433;Initial Catalog=db;Persist Security Info=False;User ID=sqladmin;Password=P@ss1234;MultipleActiveResultSets=False;Encrypt=True;TrustServerCertificate=False;Connection Timeout=30;")

\* C13: get_connection_string returns exactly "Server=tcp:" + server +
\* ".database.windows.net,1433;Initial Catalog=" + db + ";Persist Security
\* Info=False;User ID=" + user + ";Password=" + pw + ";MultipleActiveResultSets=
\* False;Encrypt=True;TrustServerCertificate=False;Connection Timeout=30;", and
\* the connection string save_deployment_info writes to both files is that
\* function of the sqlServerName and sqlDatabaseName outputs and of the admin
\* credentials collected at the prompts, unchanged.
C13_ConnectionString ==
    /\ ExampleResult = ExampleExpected
    /\ saved_json.some => saved_json.text = ExpectedConnectionString
    /\ saved_txt.some => (saved_txt.text = ExpectedConnectionString /\ saved_json = saved_txt)
    /\ pc \in {"save_txt", "summary", "done"} => saved_json.some
    /\ pc \in {"summary", "done"} => saved_txt.some
    /\ pc \in PostDeployPcs =>
          /\ admin_user \in {Chars("sqladmin"), Chars("dba")}
          /\ admin_password \in {Strip(password_input.text)}
                                  \cup generate_secure_password(GeneratedPasswordLen)

C13_Witness ==
    /\ pc = "done" /\ saved_txt.some
    /\ admin_user = Chars("dba")
    /\ OutputText("sqlServerName") = Chars("srv")
    /\ OutputText("sqlDatabaseName") = Chars("db")
    /\ "generated_password" \notin printed

\* p has a character of the string class
HasCharOf(p, class) == \E i \in 1..Len(p) : InString(p[i], class)

\* C11: every value generate_secure_password(length) returns has exactly
\* `length` characters of the alphabet, among them a lowercase letter, an
\* uppercase letter, a digit and a punctuation character; for length >= 4 the
\* loop eventually returns under a fair random source, for length < 4 it
\* never returns.
C11_GeneratedPassword ==
    /\ [](gen_pc = "returned" =>
            /\ Len(gen_password) = gen_length
            /\ \A i \in 1..Len(gen_password) : InString(gen_password[i], Alphabet)
            /\ HasCharOf(gen_password, LowerLetters)
            /\ HasCharOf(gen_password, UpperLetters)
            /\ HasCharOf(gen_password, Digits)
            /\ HasCharOf(gen_password, Punctuation))
    /\ [](gen_length < 4 => gen_pc # "returned")
    /\ (gen_length >= 4) ~> (gen_pc = "returned")

C11_Witness ==
    /\ gen_pc = "returned"
    /\ gen_length = 4
    /\ gen_password = <<"z", "9", "?", "A">>

\* Run r has taken its timestamp
Stamped(r) == run_pc[r] # "start"

\* Run r has written its .json file, its .txt file
WroteJson(r) == run_pc[r] \in {"txt", "done"}
WroteTxt(r) == run_pc[r] = "done"

\* Two different runs with the same resource prefix, both past line 108
SamePrefixRuns ==
    { p \in Runs \X Runs : /\ p[1] # p[2]
                            /\ run_prefix[p[1]] = run_prefix[p[2]]
                            /\ Stamped(p[1]) /\ Stamped(p[2]) }

\* C12: two runs with the same resource prefix that take their timestamps in
\* different clock seconds use different file names and never overwrite each
\* other's files; they use the same .json and .txt names exactly when they
\* take their timestamps in the same clock second, and then a run's write
\* replaces what the other run wrote before.
C12_OneSecondResolution ==
    /\ [](\A p \in SamePrefixRuns :
            /\ (run_second[p[1]] = run_second[p[2]])
                  <=> (JsonFile(p[1]) = JsonFile(p[2]) /\ TxtFile(p[1]) = TxtFile(p[2]))
            /\ (run_second[p[1]] # run_second[p[2]]) =>
                  /\ {JsonFile(p[1]), TxtFile(p[1])} \cap {JsonFile(p[2]), TxtFile(p[2])} = {}
                  /\ WroteJson(p[1]) => (JsonFile(p[1]) \in DOMAIN disk /\ disk[JsonFile(p[1])] = p[1])
                  /\ WroteTxt(p[1]) => (TxtFile(p[1]) \in DOMAIN disk /\ disk[TxtFile(p[1])] = p[1])
            /\ (run_second[p[1]] = run_second[p[2]] /\ WroteTxt(p[1]) /\ WroteTxt(p[2])) =>
                  /\ DOMAIN disk = {JsonFile(p[1]), TxtFile(p[1])}
                  /\ disk[JsonFile(p[1])] \in {p[1], p[2]}
                  /\ disk[TxtFile(p[1])] \in {p[1], p[2]})
    /\ [][\A r \in Runs :
            /\ (run_pc[r] = "json" /\ run_pc'[r] = "txt") => disk'[JsonFile(r)] = r
            /\ (run_pc[r] = "txt" /\ run_pc'[r] = "done") => disk'[TxtFile(r)] = r]_vars

C12_Witness ==
    /\ run_prefix[1] = run_prefix[2]
    /\ run_pc[1] = "done" /\ run_pc[2] = "done"
    /\ run_second[1] = run_second[2]
    /\ run_second[1] = 86400
    /\ disk[JsonFile(1)] = 2 /\ disk[TxtFile(1)] = 2

\* Two finished runs of different seconds, each with its own files
C12_WitnessApart ==
    /\ run_prefix[1] = run_prefix[2]
    /\ run_pc[1] = "done" /\ run_pc[2] = "done"
    /\ run_second[1] # run_second[2]
    /\ disk[JsonFile(1)] = 1 /\ disk[TxtFile(2)] = 2

====
